---- MODULE Spec2Model ----
(***************************************************************************)
(* Model of the three GraphQL subgraph services (user, listing, messaging) *)
(* of graphql-gateway: every resolver of the services, the upstream REST   *)
(* API they proxy, and the federation chain getListing -> Listing.seller   *)
(* -> User.__resolveReference that the gateway's coordinator drives.       *)
(*                                                                         *)
(* A resolver invocation lives in a slot.  An async resolver runs in two   *)
(* steps: it builds its outbound call and suspends on `await fetch(...)`,  *)
(* and when the call settles its continuation maps the response to the     *)
(* resolver's result.  A resolver without an await runs in one step.       *)
(***************************************************************************)
EXTENDS Integers, Sequences, FiniteSets, TLC

\* Number of resolver invocations that may be in flight at the same time.
MaxReqs == 2

Reqs == 1..MaxReqs

(***************************************************************************)
(* JavaScript values.  Every value is a record tagged by t, so that values *)
(* of different shapes can be compared.                                    *)
(***************************************************************************)
\* the value `undefined` (a missing property, a missing header)
UNDEF == "<undefined>"

\* `${v}` in a template literal: undefined prints as the word undefined
Str(v) == IF v = UNDEF THEN "undefined" ELSE v

Null == [t |-> "null"]

List(items) == [t |-> "list", items |-> items]

EmptyList == List(<< >>)

\* a promise rejection that the resolver does not catch
Thrown(name) == [t |-> "error", name |-> name]

\* an entity reference: { __typename, id } and nothing else
Ref(typename, id) == [t |-> "Ref", typename |-> typename, id |-> id]

(***************************************************************************)
(* The upstream REST API and its backing store (the environment).          *)
(***************************************************************************)
UserIds == {"u1", "u2"}

ListingIds == {"l1", "l2", "l3"}

MsgIds == {"m1", "m2"}

\* u1 exists, u2 does not
StoreUsers == {"u1"}

\* l1 is owned by u1, l2 is a record without ownerId, l3 does not exist
StoreListings == {"l1", "l2"}

OwnerOf(id) == IF id = "l1" THEN "u1" ELSE UNDEF

\* m1 exists, m2 does not
StoreMessages == {"m1"}

UserRec(id) ==
  [t |-> "User", id |-> id, username |-> "name-" \o id,
   email |-> id \o "@example.org", role |-> "USER"]

ListingRec(id) ==
  [t |-> "Listing", id |-> id, title |-> "title-" \o id, ownerId |-> OwnerOf(id)]

MessageRec(id) ==
  [t |-> "Message", id |-> id, senderId |-> "u2", receiverId |-> "u1",
   content |-> "text-" \o id, timestamp |-> "t0"]

\* inbound Authorization header values: none, a valid token of u1, a bad token
AuthValues == {UNDEF, "Bearer u1", "Bearer bad"}

TokenValid(call) == call.hasAuth /\ call.auth = "Bearer u1"

NoQuery == [none |-> TRUE]

\* the search arguments a client may send
Filters == {[none |-> TRUE], [query |-> "apartment"]}

\* the stored ids in the order the upstream lists them
StoreListingSeq == <<"l1", "l2">>

StoreMessageSeq == <<"m1">>

ListingsOf(owner) == SelectSeq(StoreListingSeq, LAMBDA l : OwnerOf(l) = owner)

RECURSIVE MapListing(_)
MapListing(s) == IF s = << >> THEN << >> ELSE <<ListingRec(Head(s))>> \o MapListing(Tail(s))

RECURSIVE MapMessage(_)
MapMessage(s) == IF s = << >> THEN << >> ELSE <<MessageRec(Head(s))>> \o MapMessage(Tail(s))

Ok(body) == [kind |-> "ok", status |-> 200, body |-> body]

NotOk(status) == [kind |-> "notok", status |-> status, body |-> Null]

\* the fetch promise rejects: connection refused, timeout
Rejected == [kind |-> "rejected", status |-> 0, body |-> Null]

NoResp == [kind |-> "none", status |-> 0, body |-> Null]

\* what a reachable, healthy upstream answers to a call, from its store
StoreAnswers(call) ==
  LET p == call.path IN
  CASE Len(p) = 3 /\ p[2] = "users" ->
         IF p[3] \in StoreUsers THEN {Ok(UserRec(p[3]))} ELSE {NotOk(404)}
    [] Len(p) = 3 /\ p[2] = "auth" ->
         IF TokenValid(call) THEN {Ok(UserRec("u1"))} ELSE {NotOk(401)}
    [] Len(p) = 3 /\ p[2] = "books" /\ p[3] = "search" ->
         {Ok(List(MapListing(StoreListingSeq))), Ok(EmptyList)}
    [] Len(p) = 3 /\ p[2] = "books" /\ p[3] = "my-listings" ->
         IF TokenValid(call) THEN {Ok(List(MapListing(ListingsOf("u1"))))}
         ELSE {NotOk(401)}
    [] Len(p) = 3 /\ p[2] = "books" /\ p[3] \notin {"search", "my-listings"} ->
         IF p[3] \in StoreListings THEN {Ok(ListingRec(p[3]))} ELSE {NotOk(404)}
    [] Len(p) = 2 /\ p[2] = "books" ->
         IF call.query = NoQuery
         THEN {Ok(List(MapListing(StoreListingSeq)))}
         ELSE {Ok(List(MapListing(ListingsOf(call.query.ownerId))))}
    [] Len(p) = 4 /\ p[3] = "received" ->
         IF p[4] \in StoreUsers
         THEN {Ok(List(MapMessage(StoreMessageSeq)))}
         ELSE {NotOk(404)}
    [] Len(p) = 5 /\ p[3] = "between" ->
         IF p[4] \in StoreUsers /\ p[5] \in UserIds
         THEN {Ok(List(MapMessage(StoreMessageSeq)))}
         ELSE {NotOk(404)}
    [] OTHER -> {NotOk(404)}

\* every way a call can settle: the store's answer, a server error, no answer
Upstream(call) == StoreAnswers(call) \cup {NotOk(500), Rejected}

(***************************************************************************)
(* Outbound calls.  fetch(url) carries no headers option; the two          *)
(* authenticated resolvers pass headers: { Authorization: <value> }.       *)
(***************************************************************************)
Get(path, query) == [path |-> path, query |-> query, hasAuth |-> FALSE, auth |-> UNDEF]

GetAuth(path, authorization) ==
  [path |-> path, query |-> NoQuery, hasAuth |-> TRUE, auth |-> authorization]

NoCall == [path |-> << >>, query |-> NoQuery, hasAuth |-> FALSE, auth |-> UNDEF]

\* the context every request gets: { headers: req.headers }
Context(authorization) == [headers |-> [authorization |-> authorization]]

(***************************************************************************)
(* User service.                                                           *)
(***************************************************************************)
getUser_fetch(args) == Get(<<"api", "users", Str(args.id)>>, NoQuery)

\* getUser, had it raised on a response that is not ok
getUser_raising(res) == IF res.kind # "ok" THEN Thrown("HttpError") ELSE res.body

getUser(res) == IF res.kind # "ok" THEN Null ELSE res.body

currentUser_fetch(context) ==
  GetAuth(<<"api", "auth", "user">>, context.headers.authorization)

currentUser(res) == IF res.kind # "ok" THEN Null ELSE res.body

User__resolveReference_fetch(reference) ==
  Get(<<"api", "users", Str(reference.id)>>, NoQuery)

User__resolveReference(res) == IF res.kind # "ok" THEN Null ELSE res.body

(***************************************************************************)
(* Listing service.                                                        *)
(***************************************************************************)
getListing_fetch(args) == Get(<<"api", "books", Str(args.id)>>, NoQuery)

getListing(res) == IF res.kind # "ok" THEN Null ELSE res.body

\* new URLSearchParams(args): the arguments given, as the query string
searchListings_fetch(args) == Get(<<"api", "books", "search">>, args)

searchListings(res) == IF res.kind # "ok" THEN EmptyList ELSE res.body

recentListings_fetch == Get(<<"api", "books">>, NoQuery)

recentListings(res) == IF res.kind # "ok" THEN EmptyList ELSE res.body

\* myListings, had it sent a token of the service's own instead of the inbound one
myListings_fetch_ownToken(context) ==
  GetAuth(<<"api", "books", "my-listings">>, "Bearer u1")

myListings_fetch(context) ==
  GetAuth(<<"api", "books", "my-listings">>, context.headers.authorization)

myListings(res) == IF res.kind # "ok" THEN EmptyList ELSE res.body

\* Listing.seller, had it keyed the reference by the listing's own id
seller_byListingId(listing) == Ref("User", listing.id)

\* Listing.seller: no await, no call; the id is whatever listing.ownerId is
seller(listing) == Ref("User", listing.ownerId)

listings_fetch(user) == Get(<<"api", "books">>, [ownerId |-> Str(user.id)])

listings(res) == IF res.kind # "ok" THEN EmptyList ELSE res.body

\* The Listing resolvers define no __resolveReference: the subgraph runtime
\* then hands the reference back as the entity, without any call.
Listing__resolveReference(reference) == reference

(***************************************************************************)
(* Messaging service.                                                      *)
(***************************************************************************)
getReceivedMessages_fetch(args) ==
  Get(<<"api", "messages", "received", Str(args.userId)>>, NoQuery)

getReceivedMessages(res) == IF res.kind # "ok" THEN EmptyList ELSE res.body

getMessagesBetween_fetch(args) ==
  Get(<<"api", "messages", "between", Str(args.userId1), Str(args.userId2)>>, NoQuery)

getMessagesBetween(res) == IF res.kind # "ok" THEN EmptyList ELSE res.body

\* async, but without an await: resolves to null whatever the reference
Message__resolveReference(reference) == Null

(***************************************************************************)
(* Resolver invocations.                                                   *)
(***************************************************************************)
VARIABLES
  pc,       \* slot -> "idle" | "waiting" (suspended on await fetch) | "done"
  op,       \* slot -> the resolver that runs in it
  arg,      \* slot -> its args, parent or reference
  hdr,      \* slot -> the Authorization header of the inbound request
  call,     \* slot -> the outbound call it issued, NoCall if none
  nfetch,   \* slot -> how many outbound calls the invocation issued
  resp,     \* slot -> how its call settled, NoResp if it did not (yet)
  result,   \* slot -> what the resolver returned (or threw)
  chain     \* slot -> the resolver steps of the same query that led here

vars == <<pc, op, arg, hdr, call, nfetch, resp, result, chain>>

\* resolvers that await one fetch
FetchOps ==
  {"getUser", "currentUser", "User.__resolveReference", "getListing",
   "searchListings", "recentListings", "myListings", "User.listings",
   "getReceivedMessages", "getMessagesBetween"}

\* resolvers that return without awaiting anything
SyncOps == {"Listing.seller", "Listing.__resolveReference", "Message.__resolveReference"}

\* resolvers a request can start with; Listing.seller runs on a fetched listing
EntryOps == (FetchOps \cup SyncOps) \ {"Listing.seller"}

NoArg == [none |-> TRUE]

Pending == [t |-> "pending"]

\* the inputs a client or the coordinator may hand to a resolver
Args(o) ==
  CASE o = "getUser" -> {[id |-> i] : i \in UserIds}
    [] o = "getListing" -> {[id |-> i] : i \in ListingIds}
    [] o = "searchListings" -> Filters
    [] o = "User.__resolveReference" -> {Ref("User", i) : i \in UserIds}
    [] o = "Listing.__resolveReference" -> {Ref("Listing", i) : i \in ListingIds}
    [] o = "Message.__resolveReference" -> {Ref("Message", i) : i \in MsgIds}
    [] o = "User.listings" -> {Ref("User", i) : i \in UserIds}
    [] o = "getReceivedMessages" -> {[userId |-> i] : i \in UserIds}
    [] o = "getMessagesBetween" -> {[userId1 |-> i, userId2 |-> "u1"] : i \in UserIds}
    [] OTHER -> {NoArg}

Hdrs(o) == IF o \in {"currentUser", "myListings"} THEN AuthValues ELSE {UNDEF}

\* the call a resolver builds before it awaits
Request(o, a, context) ==
  CASE o = "getUser" -> getUser_fetch(a)
    [] o = "currentUser" -> currentUser_fetch(context)
    [] o = "User.__resolveReference" -> User__resolveReference_fetch(a)
    [] o = "getListing" -> getListing_fetch(a)
    [] o = "searchListings" -> searchListings_fetch(a)
    [] o = "recentListings" -> recentListings_fetch
    [] o = "myListings" -> myListings_fetch(context)
    [] o = "User.listings" -> listings_fetch(a)
    [] o = "getReceivedMessages" -> getReceivedMessages_fetch(a)
    [] o = "getMessagesBetween" -> getMessagesBetween_fetch(a)

\* the resolver's code after `await fetch(...)` returned a response
Continue(o, res) ==
  CASE o = "getUser" -> getUser(res)
    [] o = "currentUser" -> currentUser(res)
    [] o = "User.__resolveReference" -> User__resolveReference(res)
    [] o = "getListing" -> getListing(res)
    [] o = "searchListings" -> searchListings(res)
    [] o = "recentListings" -> recentListings(res)
    [] o = "myListings" -> myListings(res)
    [] o = "User.listings" -> listings(res)
    [] o = "getReceivedMessages" -> getReceivedMessages(res)
    [] o = "getMessagesBetween" -> getMessagesBetween(res)

\* `await fetch(...)` with no try/catch around it: a rejection is thrown on
Awaited(o, res) ==
  IF res.kind = "rejected" THEN Thrown("FetchError") ELSE Continue(o, res)

RunSync(o, a) ==
  CASE o = "Listing.seller" -> seller(a)
    [] o = "Listing.__resolveReference" -> Listing__resolveReference(a)
    [] o = "Message.__resolveReference" -> Message__resolveReference(a)

Init ==
  /\ pc = [r \in Reqs |-> "idle"]
  /\ op = [r \in Reqs |-> "none"]
  /\ arg = [r \in Reqs |-> NoArg]
  /\ hdr = [r \in Reqs |-> UNDEF]
  /\ call = [r \in Reqs |-> NoCall]
  /\ nfetch = [r \in Reqs |-> 0]
  /\ resp = [r \in Reqs |-> NoResp]
  /\ result = [r \in Reqs |-> Pending]
  /\ chain = [r \in Reqs |-> << >>]

\* resolver o starts in slot r on input a, in a request whose header is h
Run(r, o, a, h) ==
  /\ op' = [op EXCEPT ![r] = o]
  /\ arg' = [arg EXCEPT ![r] = a]
  /\ hdr' = [hdr EXCEPT ![r] = h]
  /\ resp' = [resp EXCEPT ![r] = NoResp]
  /\ IF o \in SyncOps
     THEN /\ pc' = [pc EXCEPT ![r] = "done"]
          /\ call' = [call EXCEPT ![r] = NoCall]
          /\ nfetch' = [nfetch EXCEPT ![r] = 0]
          /\ result' = [result EXCEPT ![r] = RunSync(o, a)]
     ELSE /\ pc' = [pc EXCEPT ![r] = "waiting"]
          /\ call' = [call EXCEPT ![r] = Request(o, a, Context(h))]
          /\ nfetch' = [nfetch EXCEPT ![r] = 1]
          /\ result' = [result EXCEPT ![r] = Pending]

\* a request reaches a resolver of a service
Invoke(r) ==
  /\ pc[r] = "idle"
  /\ \E o \in EntryOps : \E a \in Args(o) : \E h \in Hdrs(o) : Run(r, o, a, h)
  /\ chain' = [chain EXCEPT ![r] = << >>]

\* Settle, had `res` been one variable shared by all invocations: the
\* continuation then reads the response another invocation stored last
Settle_sharedRes(r) ==
  /\ pc[r] = "waiting"
  /\ \E res \in Upstream(call[r]) :
       /\ resp' = [resp EXCEPT ![r] = res]
       /\ LET others == {q \in Reqs \ {r} : pc[q] = "done" /\ resp[q].kind # "none"}
              seen == IF others = {} THEN res ELSE resp[CHOOSE q \in others : TRUE]
          IN  result' = [result EXCEPT ![r] = Awaited(op[r], seen)]
  /\ pc' = [pc EXCEPT ![r] = "done"]
  /\ UNCHANGED <<op, arg, hdr, call, nfetch, chain>>

\* the call of slot r settles and the resolver's continuation runs
Settle(r) ==
  /\ pc[r] = "waiting"
  /\ \E res \in Upstream(call[r]) :
       /\ resp' = [resp EXCEPT ![r] = res]
       /\ result' = [result EXCEPT ![r] = Awaited(op[r], res)]
  /\ pc' = [pc EXCEPT ![r] = "done"]
  /\ UNCHANGED <<op, arg, hdr, call, nfetch, chain>>

\* what a finished resolver step leaves in the query's chain
Step(r) ==
  [op |-> op[r], arg |-> arg[r], nfetch |-> nfetch[r], resp |-> resp[r],
   result |-> result[r]]

\* the listing that getListing returned gets its seller field resolved
ResolveSeller(r) ==
  /\ pc[r] = "done"
  /\ op[r] = "getListing"
  /\ result[r].t = "Listing"
  /\ Run(r, "Listing.seller", result[r], hdr[r])
  /\ chain' = [chain EXCEPT ![r] = Append(@, Step(r))]

\* the coordinator hands the seller reference to the User service
ForwardReference(r) ==
  /\ pc[r] = "done"
  /\ op[r] = "Listing.seller"
  /\ Run(r, "User.__resolveReference", result[r], hdr[r])
  /\ chain' = [chain EXCEPT ![r] = Append(@, Step(r))]

\* the query of slot r is answered; the slot is free again
Finish(r) ==
  /\ pc[r] = "done"
  /\ pc' = [pc EXCEPT ![r] = "idle"]
  /\ op' = [op EXCEPT ![r] = "none"]
  /\ arg' = [arg EXCEPT ![r] = NoArg]
  /\ hdr' = [hdr EXCEPT ![r] = UNDEF]
  /\ call' = [call EXCEPT ![r] = NoCall]
  /\ nfetch' = [nfetch EXCEPT ![r] = 0]
  /\ resp' = [resp EXCEPT ![r] = NoResp]
  /\ result' = [result EXCEPT ![r] = Pending]
  /\ chain' = [chain EXCEPT ![r] = << >>]

Next ==
  \E r \in Reqs :
    \/ Invoke(r)
    \/ Settle(r)
    \/ ResolveSeller(r)
    \/ ForwardReference(r)
    \/ Finish(r)

Spec == Init /\ [][Next]_vars

(***************************************************************************)
(* The claims.                                                             *)
(***************************************************************************)
SingleQueries == {"getUser", "currentUser", "getListing"}

ListQueries ==
  {"searchListings", "recentListings", "myListings", "getReceivedMessages",
   "getMessagesBetween"}

RefOps == {"User.__resolveReference", "Listing.__resolveReference", "Message.__resolveReference"}

InStore(typename, id) ==
  CASE typename = "User" -> id \in StoreUsers
    [] typename = "Listing" -> id \in StoreListings
    [] typename = "Message" -> id \in StoreMessages

Entity(typename, id) ==
  CASE typename = "User" -> UserRec(id)
    [] typename = "Listing" -> ListingRec(id)
    [] typename = "Message" -> MessageRec(id)

\* the upstream was reachable and answered the call of slot r from its store
\* (or the resolver issued no call at all)
AnsweredFromStore(r) == nfetch[r] = 0 \/ resp[r] \in StoreAnswers(call[r])

\* C1: a top-level query resolver whose upstream call was answered with a
\* non-2xx status returns null (single-entity query) or the empty sequence
\* (list query), and never an error.
C1_NonOkDegrades ==
  \A r \in Reqs :
    (pc[r] = "done" /\ op[r] \in SingleQueries \cup ListQueries /\ resp[r].kind = "notok")
      => /\ result[r] = IF op[r] \in SingleQueries THEN Null ELSE EmptyList
         /\ result[r].t # "error"

\* getUser for an id the store does not hold ended with null
C1_Witness ==
  \E r \in Reqs :
    /\ pc[r] = "done" /\ op[r] = "getUser" /\ arg[r].id = "u2"
    /\ resp[r] = NotOk(404) /\ result[r] = Null

\* C2: resolveReference on a reference whose key the store holds returns
\* that entity with all its declared fields, for User, Listing and Message.
C2_ResolveReferenceReturnsEntity ==
  \A r \in Reqs :
    (/\ pc[r] = "done" /\ op[r] \in RefOps
     /\ InStore(arg[r].typename, arg[r].id) /\ AnsweredFromStore(r))
      => result[r] = Entity(arg[r].typename, arg[r].id)

\* C3: resolveReference on a reference whose key the store does not hold
\* returns null, for User, Listing and Message.
C3_AbsentKeyGivesNull ==
  \A r \in Reqs :
    (/\ pc[r] = "done" /\ op[r] \in RefOps
     /\ ~ InStore(arg[r].typename, arg[r].id) /\ AnsweredFromStore(r))
      => result[r] = Null

\* C4: in resolveReference a transport-level failure (the fetch rejects, or
\* a non-2xx answer other than not-found) ends in Failed, and only the
\* upstream's not-found answer ends in null.
C4_TransportFailureSurfaces ==
  \A r \in Reqs :
    (pc[r] = "done" /\ op[r] \in RefOps)
      => /\ (resp[r].kind = "rejected" \/ (resp[r].kind = "notok" /\ resp[r].status # 404))
              => result[r].t = "error"
         /\ result[r] = Null => resp[r] = NotOk(404)

\* C5: a reference is never built from a missing key: Listing.seller on a
\* listing without ownerId fails with InvalidKey, and no reference with an
\* undefined id is handed on.
C5_MissingKeyIsRefused ==
  \A r \in Reqs :
    /\ (pc[r] = "done" /\ op[r] = "Listing.seller" /\ arg[r].ownerId = UNDEF)
         => result[r] = Thrown("InvalidKey")
    /\ (op[r] \in RefOps) => arg[r].id # UNDEF

C7_SellerResolvesToOwner ==
  \A r \in Reqs :
    /\ (op[r] = "Listing.seller" /\ Len(chain[r]) = 1)
         => /\ chain[r][1].op = "getListing"
            /\ arg[r] = chain[r][1].result
            /\ nfetch[r] = 0 /\ call[r] = NoCall
            /\ arg[r].id \in StoreListings
                 => result[r] = Ref("User", OwnerOf(arg[r].id))
    /\ (op[r] = "User.__resolveReference" /\ Len(chain[r]) = 2)
         => LET g == chain[r][1]
                s == chain[r][2]
            IN  /\ g.op = "getListing" /\ s.op = "Listing.seller"
                /\ s.arg = g.result /\ s.nfetch = 0
                /\ arg[r] = s.result
                /\ (/\ pc[r] = "done"
                    /\ g.result = ListingRec(g.arg.id)
                    /\ OwnerOf(g.arg.id) \in StoreUsers
                    /\ AnsweredFromStore(r))
                     => result[r] = UserRec(OwnerOf(g.arg.id))

\* getListing(l1) gave the stored listing, its seller was forwarded and the
\* User service returned the record of its owner u1
C7_Witness ==
  \E r \in Reqs :
    /\ pc[r] = "done" /\ op[r] = "User.__resolveReference" /\ Len(chain[r]) = 2
    /\ chain[r][1].arg.id = "l1" /\ chain[r][1].result = ListingRec("l1")
    /\ chain[r][2].result = Ref("User", "u1")
    /\ result[r] = UserRec("u1")

\* C8: searchListings yields a sequence, never null and never an error,
\* whatever the filter and however the upstream call ends.
C8_SearchAlwaysSequence ==
  \A r \in Reqs :
    (pc[r] = "done" /\ op[r] = "searchListings") => result[r].t = "list"

\* C9: every resolveReference call, of every entity type, has issued exactly
\* one upstream fetch, by the reference's key, when it ends.
C9_ExactlyOneFetch ==
  \A r \in Reqs :
    (pc[r] = "done" /\ op[r] \in RefOps)
      => /\ nfetch[r] = 1
         /\ Len(call[r].path) > 0
         /\ call[r].path[Len(call[r].path)] = Str(arg[r].id)

\* C10: invocations in flight together do not affect each other: each has
\* issued at most one call, an idle slot can always start and a waiting one
\* can always settle whatever the others do, and what an invocation returns
\* is fixed by its own input, header and response alone.
C10_InvocationsIndependent ==
  \A r \in Reqs :
    /\ nfetch[r] <= 1
    /\ \A i \in 1..Len(chain[r]) : chain[r][i].nfetch <= 1
    /\ pc[r] = "idle" => ENABLED Invoke(r)
    /\ pc[r] = "waiting" => ENABLED Settle(r)
    /\ (pc[r] # "idle" /\ op[r] \in FetchOps)
         => /\ call[r] = Request(op[r], arg[r], Context(hdr[r]))
            /\ pc[r] = "done"
                 => /\ resp[r] \in Upstream(call[r])
                    /\ result[r] = Awaited(op[r], resp[r])
    /\ (pc[r] = "done" /\ op[r] \in SyncOps) => result[r] = RunSync(op[r], arg[r])

\* one invocation finished with the store's answer while another, of the
\* same resolver on another input, was still waiting for its own call
C10_Witness ==
  \E r, q \in Reqs :
    /\ r # q
    /\ pc[r] = "waiting" /\ pc[q] = "done"
    /\ op[r] = "getUser" /\ op[q] = "getUser"
    /\ arg[r].id = "u1" /\ arg[q].id = "u2"
    /\ result[q] = Null

====
